---- MODULE Spec2Model ----
(***************************************************************************)
(* LatexWrite (src/src/latex.rs): a std::io::Write adapter that escapes    *)
(* text for LaTeX.  It classifies overlapping 3-character windows of the   *)
(* decoded input, keeps the unresolved tail of a chunk in last_chars and   *)
(* drains it in flush (also run by Drop).                                  *)
(*                                                                         *)
(* Characters are Unicode scalar values (naturals); chunks and the sink    *)
(* contents are sequences of bytes.                                        *)
(***************************************************************************)
EXTENDS Integers, Sequences, FiniteSets, TLC

(***************************************************************************)
(* Characters named by the rule table of process_trigram.                  *)
(***************************************************************************)
WORD_JOINER == 8288
SPACE == 32
NEWLINE == 10
DOLLAR == 36
PERCENT == 37
BACKSLASH == 92
HYPHEN == 45
EN_DASH == 8211
EM_DASH == 8212
COMMA == 44
DIGIT_0 == 48
DIGIT_9 == 57
\* characters of the test inputs that no rule names
DIGIT_1 == 49
LBRACE == 123
RBRACE == 125
LETTER_A == 97

(***************************************************************************)
(* Bounds of the model.                                                    *)
(***************************************************************************)
\* longest total input (in characters) over the whole alphabet
MaxLen == 3
\* longest total input over one of the small alphabets
MaxLenSmall == 4
\* longest total input over the three-character alphabet
MaxLenTiny == 5
\* longest total input over the alphabet around the word joiner
MaxLenJoiner == 6
\* most explicit flush calls of a caller that reuses the writer
MaxFlush == 2
\* longest total input of a caller that reuses the writer
MaxLenReuse == 3
\* longest total input when the sink may fail
MaxLenFail == 3
\* sink calls (1..MaxSinkCall) among which a failing sink fails
MaxSinkCall == 4
\* longest total input when the sink may accept short writes
MaxLenShort == 3
\* most bytes (0..MaxTake) a short write of the sink accepts
MaxTake == 1
\* most nodes (elements and texts) of a document
MaxNodes == 2
\* deepest nesting of elements
MaxDepth == 2

(***************************************************************************)
(* UTF-8: char::encode_utf8 and std::str::from_utf8.                       *)
(***************************************************************************)
encode_utf8(c) ==
    IF c < 128 THEN <<c>>
    ELSE IF c < 2048 THEN <<192 + (c \div 64), 128 + (c % 64)>>
    ELSE IF c < 65536
        THEN <<224 + (c \div 4096), 128 + ((c \div 64) % 64), 128 + (c % 64)>>
    ELSE <<240 + (c \div 262144), 128 + ((c \div 4096) % 64),
           128 + ((c \div 64) % 64), 128 + (c % 64)>>

RECURSIVE encode_str(_)
encode_str(cs) ==
    IF cs = <<>> THEN <<>> ELSE encode_utf8(Head(cs)) \o encode_str(Tail(cs))

IsCont(b) == b >= 128 /\ b <= 191

\* number of bytes the lead byte at b[i] announces, 0 if b[i] cannot lead
SeqLenAt(b, i) ==
    LET l == b[i] IN
    IF l < 128 THEN 1
    ELSE IF l >= 194 /\ l <= 223 THEN 2
    ELSE IF l >= 224 /\ l <= 239 THEN 3
    ELSE IF l >= 240 /\ l <= 244 THEN 4
    ELSE 0

\* the continuation bytes of the sequence at b[i] are present and in range
WellFormedAt(b, i, n) ==
    /\ n > 0
    /\ i + n - 1 <= Len(b)
    /\ \A j \in (i + 1)..(i + n - 1) : IsCont(b[j])
    /\ (b[i] = 224 => b[i + 1] >= 160)
    /\ (b[i] = 237 => b[i + 1] <= 159)
    /\ (b[i] = 240 => b[i + 1] >= 144)
    /\ (b[i] = 244 => b[i + 1] <= 143)

ScalarAt(b, i, n) ==
    IF n = 1 THEN b[i]
    ELSE IF n = 2 THEN (b[i] - 192) * 64 + (b[i + 1] - 128)
    ELSE IF n = 3
        THEN (b[i] - 224) * 4096 + (b[i + 1] - 128) * 64 + (b[i + 2] - 128)
    ELSE (b[i] - 240) * 262144 + (b[i + 1] - 128) * 4096
         + (b[i + 2] - 128) * 64 + (b[i + 3] - 128)

\* ok: the bytes are UTF-8; chars: the characters up to the first error
RECURSIVE utf8_decode(_, _, _)
utf8_decode(b, i, acc) ==
    IF i > Len(b) THEN [ok |-> TRUE, chars |-> acc]
    ELSE LET n == SeqLenAt(b, i) IN
         IF WellFormedAt(b, i, n)
         THEN utf8_decode(b, i + n, Append(acc, ScalarAt(b, i, n)))
         ELSE [ok |-> FALSE, chars |-> acc]

from_utf8(buf) == utf8_decode(buf, 1, <<>>)

(***************************************************************************)
(* The sink `inner: T` (T: std::io::Write).  data is what it accepted,     *)
(* calls the calls made on it, failAt the calls (by number) that return an *)
(* error.  A failing call accepts nothing.                                 *)
(***************************************************************************)
NewSink(failAt) ==
    [data |-> <<>>, calls |-> <<>>, failAt |-> failAt, shortAt |-> {}, take |-> 0]

\* a sink whose write, at the calls in shortAt, accepts no more than `take`
\* bytes of the slice and returns that count
ShortSink(shortAt, take) == [NewSink({}) EXCEPT !.shortAt = shortAt, !.take = take]

\* Write::write of the sink: Ok(n) with the n bytes it accepted, or Err
Taken(s, bytes) ==
    IF (Len(s.calls) + 1) \in s.shortAt /\ s.take < Len(bytes) THEN s.take
    ELSE Len(bytes)

Accept(s, bytes, ok, n) ==
    [ok |-> ok, n |-> n,
     s |-> [s EXCEPT !.calls = Append(@, [op |-> "write", bytes |-> bytes,
                                          ok |-> ok, n |-> n]),
                     !.data = @ \o SubSeq(bytes, 1, n)]]

inner_write(s, bytes) ==
    IF (Len(s.calls) + 1) \in s.failAt THEN Accept(s, bytes, FALSE, 0)
    ELSE Accept(s, bytes, TRUE, Taken(s, bytes))

inner_flush(s) ==
    LET ok == (Len(s.calls) + 1) \notin s.failAt IN
    [ok |-> ok,
     s |-> [s EXCEPT !.calls = Append(@, [op |-> "flush", bytes |-> <<>>,
                                          ok |-> ok, n |-> 0])]]

(***************************************************************************)
(* process_trigram: the rule table, first match wins.                      *)
(***************************************************************************)
IsDash(c) == c \in {EN_DASH, HYPHEN, EM_DASH}
IsDigit(c) == c >= DIGIT_0 /\ c <= DIGIT_9

\* a rule table whose em-dash arm forgets the comma
Arm_no_comma(t) ==
    IF t[1] = WORD_JOINER \/ (t[1] = SPACE /\ t[2] = SPACE) THEN "skip"
    ELSE IF t[1] = SPACE /\ t[2] = NEWLINE THEN "space_newline"
    ELSE IF t[1] = DOLLAR THEN "dollar"
    ELSE IF t[1] = PERCENT THEN "percent"
    ELSE IF t[1] = SPACE /\ IsDash(t[2]) /\ t[3] = SPACE THEN "em_dash"
    ELSE IF t[1] = COMMA /\ IsDash(t[2]) /\ t[3] = SPACE THEN "comma_dash"
    ELSE IF IsDigit(t[1]) /\ IsDash(t[2]) /\ IsDigit(t[3]) THEN "en_dash"
    ELSE "verbatim"

\* a rule table whose comma-dash arm does not look at the third character
Arm_any_third(t) ==
    IF t[1] = WORD_JOINER \/ (t[1] = SPACE /\ t[2] = SPACE) THEN "skip"
    ELSE IF t[1] = SPACE /\ t[2] = NEWLINE THEN "space_newline"
    ELSE IF t[1] = DOLLAR THEN "dollar"
    ELSE IF t[1] = PERCENT THEN "percent"
    ELSE IF t[1] = SPACE /\ IsDash(t[2]) /\ t[3] \in {SPACE, COMMA} THEN "em_dash"
    ELSE IF t[1] = COMMA /\ IsDash(t[2]) THEN "comma_dash"
    ELSE IF IsDigit(t[1]) /\ IsDash(t[2]) /\ IsDigit(t[3]) THEN "en_dash"
    ELSE "verbatim"

\* a rule table without the word-joiner pattern of the first arm
Arm_no_joiner(t) ==
    IF t[1] = SPACE /\ t[2] = SPACE THEN "skip"
    ELSE IF t[1] = SPACE /\ t[2] = NEWLINE THEN "space_newline"
    ELSE IF t[1] = DOLLAR THEN "dollar"
    ELSE IF t[1] = PERCENT THEN "percent"
    ELSE IF t[1] = SPACE /\ IsDash(t[2]) /\ t[3] \in {SPACE, COMMA} THEN "em_dash"
    ELSE IF t[1] = COMMA /\ IsDash(t[2]) /\ t[3] = SPACE THEN "comma_dash"
    ELSE IF IsDigit(t[1]) /\ IsDash(t[2]) /\ IsDigit(t[3]) THEN "en_dash"
    ELSE "verbatim"

\* the arm of the match that a trigram selects
Arm(t) ==
    IF t[1] = WORD_JOINER \/ (t[1] = SPACE /\ t[2] = SPACE) THEN "skip"
    ELSE IF t[1] = SPACE /\ t[2] = NEWLINE THEN "space_newline"
    ELSE IF t[1] = DOLLAR THEN "dollar"
    ELSE IF t[1] = PERCENT THEN "percent"
    ELSE IF t[1] = SPACE /\ IsDash(t[2]) /\ t[3] \in {SPACE, COMMA} THEN "em_dash"
    ELSE IF t[1] = COMMA /\ IsDash(t[2]) /\ t[3] = SPACE THEN "comma_dash"
    ELSE IF IsDigit(t[1]) /\ IsDash(t[2]) /\ IsDigit(t[3]) THEN "en_dash"
    ELSE "verbatim"

\* the slices the arm passes to inner.write, in order
ArmWrites(t) ==
    CASE Arm(t) = "skip" -> <<>>
      [] Arm(t) = "space_newline" -> << <<NEWLINE>> >>
      [] Arm(t) = "dollar" -> << <<BACKSLASH, DOLLAR>> >>
      [] Arm(t) = "percent" -> << <<BACKSLASH, PERCENT>> >>
      [] Arm(t) = "em_dash" -> << <<SPACE, HYPHEN, HYPHEN, HYPHEN>> >>
      [] Arm(t) = "comma_dash" -> << <<COMMA, HYPHEN, HYPHEN, HYPHEN>> >>
      [] Arm(t) = "en_dash" -> << encode_utf8(t[1]), <<HYPHEN, HYPHEN>> >>
      [] OTHER -> << encode_utf8(t[1]) >>

\* a rule table whose space-before-line-break arm returns 1
ArmCount_newline_one(t) ==
    IF Arm(t) \in {"em_dash", "comma_dash", "en_dash"} THEN 2 ELSE 1

\* the count the arm returns
ArmCount(t) ==
    IF Arm(t) \in {"space_newline", "em_dash", "comma_dash", "en_dash"} THEN 2 ELSE 1

\* the writes of one arm; `?` returns at the first failing one
RECURSIVE write_slices(_, _, _)
write_slices(s, slices, done) ==
    IF slices = <<>> THEN [ok |-> TRUE, s |-> s, done |-> done]
    ELSE LET r == inner_write(s, Head(slices)) IN
         IF r.ok THEN write_slices(r.s, Tail(slices), done \o Head(slices))
         ELSE [ok |-> FALSE, s |-> r.s, done |-> done]

\* a process_trigram that drops the result of inner.write (no `?`) and goes
\* on to the flush
process_trigram_unchecked(w, trigram, pos) ==
    LET wr == write_slices(w.inner, ArmWrites(trigram), <<>>)
        fl == inner_flush(wr.s)
        res == IF fl.ok THEN ArmCount(trigram) ELSE 0
    IN [res |-> res,
        w |-> [w EXCEPT !.inner = fl.s,
                        !.log = Append(@, [pos |-> pos, trigram |-> trigram,
                                           res |-> res, out |-> wr.done])]]

\* a process_trigram that flushes the sink only when its arm wrote to it
process_trigram_lazy_flush(w, trigram, pos) ==
    LET wr == write_slices(w.inner, ArmWrites(trigram), <<>>)
        fl == IF wr.ok /\ ArmWrites(trigram) # <<>> THEN inner_flush(wr.s)
              ELSE [ok |-> wr.ok, s |-> wr.s]
        res == IF fl.ok THEN ArmCount(trigram) ELSE 0
    IN [res |-> res,
        w |-> [w EXCEPT !.inner = fl.s,
                        !.log = Append(@, [pos |-> pos, trigram |-> trigram,
                                           res |-> res, out |-> wr.done])]]

\* w: the writer [last_chars, last_pos, inner, log]; pos: the positions in
\* the input of the trigram's characters, 0 for padding (bookkeeping).
\* res = 0 stands for Err.
process_trigram(w, trigram, pos) ==
    LET wr == write_slices(w.inner, ArmWrites(trigram), <<>>)
        fl == IF wr.ok THEN inner_flush(wr.s) ELSE [ok |-> FALSE, s |-> wr.s]
        res == IF fl.ok THEN ArmCount(trigram) ELSE 0
    IN [res |-> res,
        w |-> [w EXCEPT !.inner = fl.s,
                        !.log = Append(@, [pos |-> pos, trigram |-> trigram,
                                           res |-> res, out |-> wr.done])]]

(***************************************************************************)
(* ngram_iter::Iter<_, _, 3>: the windows of a character sequence.  The    *)
(* window at position i is (seq[i], seq[i+1], seq[i+2]) for i = 1..len,    *)
(* the missing elements padded with WORD_JOINER; after the last window     *)
(* next() returns None.                                                    *)
(***************************************************************************)
Iter_from(cs) == [seq |-> cs, i |-> 1]

Pad(cs, i, pad) == IF i <= Len(cs) THEN cs[i] ELSE pad

WindowAt(cs, i, pad) == <<Pad(cs, i, pad), Pad(cs, i + 1, pad), Pad(cs, i + 2, pad)>>

Iter_next(it) ==
    IF it.i > Len(it.seq)
    THEN [some |-> FALSE, item |-> <<>>, it |-> it]
    ELSE [some |-> TRUE, item |-> WindowAt(it.seq, it.i, WORD_JOINER),
          it |-> [it EXCEPT !.i = @ + 1]]

\* a loop that forgets to skip what the arm consumed
skip_none(it, s) == it

\* `for _ in 1..s { chars.next(); }`: s - 1 further calls of next
RECURSIVE skip_next(_, _)
skip_next(it, s) ==
    IF s <= 1 THEN it ELSE skip_next(Iter_next(it).it, s - 1)

(***************************************************************************)
(* LatexWrite.  A writer is [last_chars, last_pos, inner, log]:            *)
(* last_chars and inner are the struct's fields; last_pos (the input       *)
(* position of each slot of last_chars, 0 for padding) and log (one entry  *)
(* per call of process_trigram) are bookkeeping the claims are stated on.  *)
(***************************************************************************)
EMPTY_CHARS == <<WORD_JOINER, WORD_JOINER, WORD_JOINER>>

\* From<T>::from
LatexWrite_from(sink) ==
    [last_chars |-> EMPTY_CHARS, last_pos |-> <<0, 0, 0>>, inner |-> sink, log |-> <<>>]

\* `.into_iter().filter(|c| *c != WORD_JOINER)`, on the characters and on
\* their positions alike
RECURSIVE filter_joiner(_, _)
filter_joiner(cs, ps) ==
    IF cs = <<>> THEN [cs |-> <<>>, ps |-> <<>>]
    ELSE LET rest == filter_joiner(Tail(cs), Tail(ps)) IN
         IF Head(cs) # WORD_JOINER
         THEN [cs |-> <<Head(cs)>> \o rest.cs, ps |-> <<Head(ps)>> \o rest.ps]
         ELSE rest

\* the loop of write: stash a window that ends in WORD_JOINER and stop, else
\* classify the window and skip what it consumed
RECURSIVE write_loop(_, _, _)
write_loop(w, chars, ps) ==
    LET n == Iter_next(chars) IN
    IF ~n.some THEN [err |-> FALSE, w |-> w]
    ELSE IF n.item[3] = WORD_JOINER
    THEN [err |-> FALSE,
          w |-> [w EXCEPT !.last_chars = n.item,
                          !.last_pos = WindowAt(ps, chars.i, 0)]]
    ELSE LET r == process_trigram(w, n.item, WindowAt(ps, chars.i, 0)) IN
         IF r.res = 0 THEN [err |-> TRUE, w |-> r.w]
         ELSE write_loop(r.w, skip_next(n.it, r.res), ps)

\* a write that does not carry last_chars over into the chunk
write_no_carry(w, buf, base) ==
    LET dec == from_utf8(buf) IN
    IF ~dec.ok THEN [ret |-> "InvalidData", n |-> 0, w |-> w]
    ELSE LET ps == [j \in 1..Len(dec.chars) |-> base + j]
             r == write_loop(w, Iter_from(dec.chars), ps)
         IN IF r.err THEN [ret |-> "SinkError", n |-> 0, w |-> r.w]
            ELSE [ret |-> "Ok", n |-> Len(buf), w |-> r.w]

\* a write that works through the valid prefix of a malformed chunk before
\* it reports the error
write_valid_prefix(w, buf, base) ==
    LET dec == from_utf8(buf)
        kept == filter_joiner(w.last_chars, w.last_pos)
        cs == kept.cs \o dec.chars
        ps == kept.ps \o [j \in 1..Len(dec.chars) |-> base + j]
        r == write_loop(w, Iter_from(cs), ps)
    IN IF ~dec.ok THEN [ret |-> "InvalidData", n |-> 0, w |-> r.w]
       ELSE IF r.err THEN [ret |-> "SinkError", n |-> 0, w |-> r.w]
       ELSE [ret |-> "Ok", n |-> Len(buf), w |-> r.w]

\* Write::write; base is the number of characters fed to the writer so far
write(w, buf, base) ==
    LET dec == from_utf8(buf) IN
    IF ~dec.ok THEN [ret |-> "InvalidData", n |-> 0, w |-> w]
    ELSE LET kept == filter_joiner(w.last_chars, w.last_pos)
             cs == kept.cs \o dec.chars
             ps == kept.ps \o [j \in 1..Len(dec.chars) |-> base + j]
             r == write_loop(w, Iter_from(cs), ps)
         IN IF r.err THEN [ret |-> "SinkError", n |-> 0, w |-> r.w]
            ELSE [ret |-> "Ok", n |-> Len(buf), w |-> r.w]

\* the loop of flush: classify every window
RECURSIVE flush_loop(_, _, _)
flush_loop(w, chars, ps) ==
    LET n == Iter_next(chars) IN
    IF ~n.some THEN [err |-> FALSE, w |-> w]
    ELSE LET r == process_trigram(w, n.item, WindowAt(ps, chars.i, 0)) IN
         IF r.res = 0 THEN [err |-> TRUE, w |-> r.w]
         ELSE flush_loop(r.w, skip_next(n.it, r.res), ps)

\* a flush that reads last_chars (clone) and leaves it in place
flush_keep(w) ==
    LET kept == filter_joiner(w.last_chars, w.last_pos)
        r == flush_loop(w, Iter_from(kept.cs), kept.ps)
    IN [ret |-> IF r.err THEN "SinkError" ELSE "Ok", w |-> r.w]

\* a flush that empties last_chars only once every window was emitted
flush_reset_late(w) ==
    LET kept == filter_joiner(w.last_chars, w.last_pos)
        r == flush_loop(w, Iter_from(kept.cs), kept.ps)
    IN IF r.err THEN [ret |-> "SinkError", w |-> r.w]
       ELSE [ret |-> "Ok",
             w |-> [r.w EXCEPT !.last_chars = EMPTY_CHARS, !.last_pos = <<0, 0, 0>>]]

\* Write::flush: mem::replace empties last_chars before anything is emitted
flush(w) ==
    LET kept == filter_joiner(w.last_chars, w.last_pos)
        w0 == [w EXCEPT !.last_chars = EMPTY_CHARS, !.last_pos = <<0, 0, 0>>]
        r == flush_loop(w0, Iter_from(kept.cs), kept.ps)
    IN [ret |-> IF r.err THEN "SinkError" ELSE "Ok", w |-> r.w]

\* a writer without the Drop implementation
drop_nothing(w) == w

\* Drop::drop: `self.flush().ok()`
drop(w) == flush(w).w

(***************************************************************************)
(* main.rs: Style and the commands write_node puts around an element's     *)
(* children.  The texts are the bytes handed to `out`.                     *)
(***************************************************************************)
Styles == [superscript : BOOLEAN, italic : BOOLEAN, bold : BOOLEAN, quotation : BOOLEAN]

\* "\\begin{quote}" and "\\end{quote}"
BEGIN_QUOTE == <<BACKSLASH, 98, 101, 103, 105, 110, LBRACE, 113, 117, 111, 116, 101, RBRACE>>
END_QUOTE == <<BACKSLASH, 101, 110, 100, LBRACE, 113, 117, 111, 116, 101, RBRACE>>
\* "\\textbf{", "\\textit{" and "\\footnote{"
TEXTBF == <<BACKSLASH, 116, 101, 120, 116, 98, 102, LBRACE>>
TEXTIT == <<BACKSLASH, 116, 101, 120, 116, 105, 116, LBRACE>>
FOOTNOTE == <<BACKSLASH, 102, 111, 111, 116, 110, 111, 116, 101, LBRACE>>

\* Style::write_start
write_start(sty) ==
    IF sty.quotation THEN BEGIN_QUOTE \o <<NEWLINE>>
    ELSE (IF sty.bold THEN TEXTBF ELSE <<>>)
         \o (IF sty.italic THEN TEXTIT ELSE <<>>)
         \o (IF sty.superscript THEN FOOTNOTE ELSE <<>>)

\* a write_end that closes bold and italic only
write_end_no_superscript(sty) ==
    IF sty.quotation THEN <<NEWLINE>> \o END_QUOTE \o <<NEWLINE>>
    ELSE (IF sty.bold THEN <<RBRACE>> ELSE <<>>)
         \o (IF sty.italic THEN <<RBRACE>> ELSE <<>>)

\* Style::write_end
write_end(sty) ==
    IF sty.quotation THEN <<NEWLINE>> \o END_QUOTE \o <<NEWLINE>>
    ELSE (IF sty.bold THEN <<RBRACE>> ELSE <<>>)
         \o (IF sty.italic THEN <<RBRACE>> ELSE <<>>)
         \o (IF sty.superscript THEN <<RBRACE>> ELSE <<>>)

\* write_node has nothing open, has written nothing, has closed no element
EmptyDoc == [stack |-> <<>>, page |-> <<>>, closed |-> <<>>, nodes |-> 0]

(***************************************************************************)
(* The state machine: one writer over one sink, driven by a caller that    *)
(* writes chunks, flushes and finally drops the writer.                    *)
(***************************************************************************)
VARIABLES
    last_chars,  \* LatexWrite.last_chars
    inner,       \* LatexWrite.inner, the sink
    alive,       \* the writer has not been dropped
    last_pos,    \* bookkeeping: input position of each slot of last_chars
    log,         \* bookkeeping: the calls of process_trigram
    fed,         \* bookkeeping: the characters of every decoded chunk, in order
    op,          \* the last call: "new", "write", "write_malformed", "flush", "drop"
    ret,         \* what the last call returned
    nwrite,      \* write calls whose chunk decoded: 0, 1, or 2 for two or more
    nflush,      \* explicit flush calls
    caller,      \* what the caller does: its alphabet, its longest input, ...
    doc          \* write_node: the open elements and what was written to `out`

vars == <<last_chars, inner, alive, last_pos, log, fed, op, ret, nwrite, nflush, caller,
          doc>>

AlphaAll == {SPACE, NEWLINE, DOLLAR, HYPHEN, COMMA, DIGIT_1, LETTER_A, WORD_JOINER}
AlphaSpace == {SPACE, NEWLINE, LETTER_A, DOLLAR}
AlphaDash == {SPACE, HYPHEN, EN_DASH, COMMA, NEWLINE}
AlphaRange == {DIGIT_1, HYPHEN, EM_DASH}
AlphaJoiner == {WORD_JOINER, DIGIT_1, HYPHEN}
AlphaJoinerText == {WORD_JOINER, DOLLAR, PERCENT, LETTER_A}
AlphaReuse == {SPACE, HYPHEN, DIGIT_1, PERCENT}
AlphaFail == {SPACE, DIGIT_1, HYPHEN}
AlphaShort == {DOLLAR, EM_DASH, SPACE}

\* the sets of calls at which a failing sink fails
FailSets == {F \in SUBSET (1..MaxSinkCall) : Cardinality(F) \in {1, 2}}

\* a caller: the alphabet and the longest total input it writes, whether it
\* also writes malformed chunks, how often it calls flush (and writes on
\* after it), and the calls at which its sink fails
Caller(alpha, n, malformed, flushes, failAt) ==
    [alpha |-> alpha, maxlen |-> n, malformed |-> malformed, flushes |-> flushes,
     sink |-> NewSink(failAt)]

\* callers whose sink never fails
Callers ==
    {Caller(AlphaAll, MaxLen, FALSE, 1, {}),
     Caller(AlphaSpace, MaxLenSmall, FALSE, 1, {}),
     Caller(AlphaDash, MaxLenSmall, TRUE, 1, {}),
     Caller(AlphaRange, MaxLenTiny, FALSE, 1, {}),
     Caller(AlphaReuse, MaxLenReuse, FALSE, MaxFlush, {})}

\* callers that write the word joiner amid digits and dashes
JoinerCallers ==
    {Caller(AlphaJoiner, MaxLenJoiner, TRUE, 1, {}),
     Caller(AlphaJoinerText, MaxLenSmall, TRUE, 1, {})}

\* callers whose sink fails; they may flush and write on
FailCallers == {Caller(AlphaFail, MaxLenFail, TRUE, MaxFlush, F) : F \in FailSets}

\* callers whose sink accepts short writes
ShortCallers ==
    {[Caller(AlphaShort, MaxLenShort, TRUE, 1, {}) EXCEPT !.sink = ShortSink(S, k)] :
        S \in FailSets, k \in 0..MaxTake}

\* the character strings of length at most n over alpha
Strings(alpha, n) == UNION {[1..k -> alpha] : k \in 0..n}

\* chunks that are not UTF-8: a character cut short, alone or after valid
\* text, a continuation byte without a lead, a byte no encoding contains
MalformedChunks ==
    {<<226, 128>>, <<LETTER_A, 226>>, <<SPACE, HYPHEN, 226, 128>>, <<148>>,
     <<DOLLAR, 255>>}

Self == [last_chars |-> last_chars, last_pos |-> last_pos, inner |-> inner, log |-> log]

Becomes(w) ==
    /\ last_chars' = w.last_chars
    /\ last_pos' = w.last_pos
    /\ inner' = w.inner
    /\ log' = w.log

Start(callers) ==
    /\ caller \in callers
    /\ last_chars = LatexWrite_from(caller.sink).last_chars
    /\ last_pos = LatexWrite_from(caller.sink).last_pos
    /\ inner = LatexWrite_from(caller.sink).inner
    /\ log = LatexWrite_from(caller.sink).log
    /\ alive = TRUE
    /\ fed = <<>>
    /\ op = "new"
    /\ ret = "Ok"
    /\ nwrite = 0
    /\ nflush = 0
    /\ doc = EmptyDoc

\* the caller writes a chunk of text
Write ==
    /\ alive
    /\ nflush = 0 \/ caller.flushes > 1
    /\ \E cs \in Strings(caller.alpha, caller.maxlen - Len(fed)) :
        LET r == write(Self, encode_str(cs), Len(fed)) IN
        /\ Becomes(r.w)
        /\ ret' = r.ret
        /\ fed' = fed \o cs
    /\ op' = "write"
    /\ nwrite' = IF nwrite = 0 THEN 1 ELSE 2
    /\ UNCHANGED <<alive, nflush, caller, doc>>

\* the caller writes a chunk that is not UTF-8
WriteMalformed ==
    /\ alive
    /\ caller.malformed
    /\ \E buf \in MalformedChunks :
        LET r == write(Self, buf, Len(fed)) IN
        /\ Becomes(r.w)
        /\ ret' = r.ret
    /\ op' = "write_malformed"
    /\ UNCHANGED <<alive, fed, nwrite, nflush, caller, doc>>

\* the caller calls flush
Flush ==
    /\ alive
    /\ nflush < caller.flushes
    /\ LET r == flush(Self) IN
        /\ Becomes(r.w)
        /\ ret' = r.ret
    /\ op' = "flush"
    /\ nflush' = nflush + 1
    /\ UNCHANGED <<alive, fed, nwrite, caller, doc>>

\* the writer goes out of scope
Drop ==
    /\ alive
    /\ Becomes(drop(Self))
    /\ alive' = FALSE
    /\ op' = "drop"
    /\ ret' = "Ok"
    /\ UNCHANGED <<fed, nwrite, nflush, caller, doc>>

Next == Write \/ WriteMalformed \/ Flush \/ Drop

Init == Start(Callers)

Spec == Init /\ [][Next]_vars

InitJoiner == Start(JoinerCallers)

SpecJoiner == InitJoiner /\ [][Next]_vars

InitFail == Start(FailCallers)

SpecFail == InitFail /\ [][Next]_vars

(***************************************************************************)
(* write_node over a document: an element with a style attribute writes    *)
(* "\n\n" when it is a paragraph, then write_start, its children, and       *)
(* write_end; an element without a style (None) writes only its children;  *)
(* a text node writes its text.                                            *)
(***************************************************************************)
\* Option<Style>: <<>> is None, <<sty>> is Some(sty)
OptionStyles == {<<>>} \cup {<<sty>> : sty \in Styles}

Commands(opt, which) ==
    IF opt = <<>> THEN <<>>
    ELSE IF which = "start" THEN write_start(opt[1]) ELSE write_end(opt[1])

\* Node::Element, down to the first child
OpenElement ==
    /\ doc.nodes < MaxNodes
    /\ Len(doc.stack) < MaxDepth
    /\ \E p \in BOOLEAN, sty \in OptionStyles :
        LET par == IF p THEN <<NEWLINE, NEWLINE>> ELSE <<>>
            start == Commands(sty, "start")
        IN doc' = [doc EXCEPT !.stack = Append(@, [sty |-> sty, start |-> start]),
                              !.page = @ \o par \o start,
                              !.nodes = @ + 1]
    /\ UNCHANGED <<last_chars, inner, alive, last_pos, log, fed, op, ret, nwrite,
                   nflush, caller>>

\* Node::Text
WriteText ==
    /\ doc.nodes < MaxNodes
    /\ doc' = [doc EXCEPT !.page = @ \o <<LETTER_A>>, !.nodes = @ + 1]
    /\ UNCHANGED <<last_chars, inner, alive, last_pos, log, fed, op, ret, nwrite,
                   nflush, caller>>

\* Node::Element, after the last child
CloseElement ==
    /\ doc.stack # <<>>
    /\ LET top == doc.stack[Len(doc.stack)]
           end == Commands(top.sty, "end")
       IN doc' = [doc EXCEPT !.stack = SubSeq(@, 1, Len(@) - 1),
                             !.page = @ \o end,
                             !.closed = Append(@, [sty |-> top.sty, start |-> top.start,
                                                   end |-> end])]
    /\ UNCHANGED <<last_chars, inner, alive, last_pos, log, fed, op, ret, nwrite,
                   nflush, caller>>

NextStyle == OpenElement \/ WriteText \/ CloseElement

InitStyle == Start({Caller(AlphaAll, MaxLen, FALSE, 1, {})})

SpecStyle == InitStyle /\ [][NextStyle]_vars

InitShort == Start(ShortCallers)

SpecShort == InitShort /\ [][Next]_vars

(***************************************************************************)
(* Vocabulary of the properties.                                           *)
(***************************************************************************)
NoJoiner(cs) == \A i \in DOMAIN cs : cs[i] # WORD_JOINER

\* finalize (flush or drop) ran once, after every write
FinalizedOnce ==
    /\ op \in {"flush", "drop"}
    /\ nflush + (IF alive THEN 0 ELSE 1) = 1

SinkNeverFailed == \A i \in DOMAIN inner.calls : inner.calls[i].ok

\* what one write of the whole text and one flush leave in a sink
OneShot(cs) ==
    flush(write(LatexWrite_from(NewSink({})), encode_str(cs), 0).w).w.inner.data

\* how often position p was the head of a classified window, and how often
\* the second element of a window whose arm consumed 2
AsHead(p) == Cardinality({i \in DOMAIN log : log[i].pos[1] = p})
AsSecond(p) == Cardinality({i \in DOMAIN log : log[i].res = 2 /\ log[i].pos[2] = p})

\* the positions still held in last_chars
Pending == {last_pos[i] : i \in 1..3} \ {0}

(***************************************************************************)
(* C1  Chunk-boundary invariance: a sentinel-free text written in two or   *)
(* more chunks (empty ones included) and finalized once leaves in the sink *)
(* what one write of the whole text and one finalize leave.                *)
(***************************************************************************)
ChunkBoundaryInvariance ==
    (FinalizedOnce /\ nwrite = 2 /\ NoJoiner(fed)) => inner.data = OneShot(fed)

\* a range after a range, written in two or more chunks
ChunkedRangeWitness ==
    /\ FinalizedOnce
    /\ nwrite = 2
    /\ fed = <<DIGIT_1, HYPHEN, DIGIT_1, EM_DASH, DIGIT_1>>
    /\ inner.data = <<DIGIT_1, HYPHEN, HYPHEN, DIGIT_1, HYPHEN, HYPHEN, DIGIT_1>>

(***************************************************************************)
(* C2  Exactly-once accounting: on sentinel-free input every character is  *)
(* still pending in last_chars, or was the head of one classified window,  *)
(* or the second element of one window that consumed 2 -- exactly one of   *)
(* the three; windows are classified in input order; after the finalize    *)
(* nothing is pending.                                                     *)
(***************************************************************************)
ExactlyOnce ==
    NoJoiner(fed) =>
        /\ \A p \in DOMAIN fed :
            AsHead(p) + AsSecond(p) + (IF p \in Pending THEN 1 ELSE 0) = 1
        /\ \A i, j \in DOMAIN log : i < j => log[i].pos[1] < log[j].pos[1]
        /\ \A i \in DOMAIN log : log[i].trigram[1] = fed[log[i].pos[1]]
        /\ FinalizedOnce => Pending = {}

\* a window consumed 2 when its third character was the last of the input:
\* the window it skipped had no lookahead and would have been stashed
SkippedStashWitness ==
    /\ FinalizedOnce
    /\ NoJoiner(fed)
    /\ \E i \in DOMAIN log : log[i].res = 2 /\ log[i].pos[3] = Len(fed)

(***************************************************************************)
(* C3  No data loss on drop: dropping a writer that was never flushed      *)
(* leaves in the sink what flushing it and then dropping it leaves.        *)
(***************************************************************************)
DropFinalizes ==
    [][(op' = "drop" /\ nflush = 0) =>
          /\ inner'.data = drop(flush(Self).w).inner.data
          /\ inner'.data = flush(Self).w.inner.data]_vars

\* dropped, never flushed, after a text that ends in a digit and a dash
DropMidPatternWitness ==
    /\ op = "drop"
    /\ nflush = 0
    /\ fed = <<DIGIT_1, HYPHEN>>
    /\ inner.data = <<DIGIT_1, HYPHEN>>

(***************************************************************************)
(* C4  Idempotent empty finalize: a finalize (flush or drop) of a writer   *)
(* whose last_chars holds no character makes no call on the sink, emits    *)
(* nothing, succeeds and leaves last_chars empty; a drop right after a     *)
(* flush emits nothing more.                                               *)
(***************************************************************************)
EmptyFinalizeIsNoop ==
    [][/\ (op' \in {"flush", "drop"} /\ last_chars = EMPTY_CHARS) =>
            (inner' = inner /\ ret' = "Ok" /\ last_chars' = EMPTY_CHARS)
       /\ (op = "flush" /\ op' = "drop") => inner' = inner]_vars

\* flushed, then dropped: the buffered digit and dash are in the sink once
FlushThenDropWitness ==
    /\ op = "drop"
    /\ nflush = 1
    /\ fed = <<DIGIT_1, HYPHEN>>
    /\ inner.data = <<DIGIT_1, HYPHEN>>

(***************************************************************************)
(* C5  Dollar and percent escaping, for every input: after the finalize    *)
(* the sink holds as many `\$` (`\%`) as the input holds `$` (`%`), in the *)
(* order of the input, and no `$` or `%` without a backslash before it.    *)
(***************************************************************************)
IsEscapable(c) == c \in {DOLLAR, PERCENT}

Escapes(data, c) ==
    Cardinality({i \in 1..(Len(data) - 1) : data[i] = BACKSLASH /\ data[i + 1] = c})

Occurrences(cs, c) == Cardinality({i \in DOMAIN cs : cs[i] = c})

EscapedIn(data, cs) ==
    /\ Escapes(data, DOLLAR) = Occurrences(cs, DOLLAR)
    /\ Escapes(data, PERCENT) = Occurrences(cs, PERCENT)
    /\ SelectSeq(data, IsEscapable) = SelectSeq(cs, IsEscapable)
    /\ \A i \in DOMAIN data :
        IsEscapable(data[i]) => (i > 1 /\ data[i - 1] = BACKSLASH)

DollarPercentEscaped == FinalizedOnce => EscapedIn(inner.data, fed)

(***************************************************************************)
(* C6  En-dash numeric ranges, for every input: a dash-variant between two *)
(* digits is emitted, with the digit before it, as digit and `--` by a     *)
(* window that consumes 2, and the digit after it is the head of a later   *)
(* window that emits it.                                                   *)
(***************************************************************************)
RangeAt(p) ==
    /\ p \in 2..(Len(fed) - 1)
    /\ IsDigit(fed[p - 1]) /\ IsDash(fed[p]) /\ IsDigit(fed[p + 1])

RangeEmitted(p) ==
    \E i \in DOMAIN log :
        /\ log[i].pos = <<p - 1, p, p + 1>>
        /\ log[i].res = 2
        /\ log[i].out = <<fed[p - 1], HYPHEN, HYPHEN>>
        /\ \E j \in DOMAIN log :
            /\ j > i
            /\ log[j].pos[1] = p + 1
            /\ log[j].out # <<>>
            /\ Head(log[j].out) = fed[p + 1]

NumericRanges == FinalizedOnce => \A p \in DOMAIN fed : RangeAt(p) => RangeEmitted(p)

(***************************************************************************)
(* C7  Em-dash normalization.                                              *)
(***************************************************************************)
EmDashAt(p) ==
    /\ p \in 2..(Len(fed) - 1)
    /\ fed[p - 1] = SPACE /\ IsDash(fed[p]) /\ fed[p + 1] \in {SPACE, COMMA}

\* the space before the dash and the dash went out as " ---"
EmDashEmitted(p) ==
    \E i \in DOMAIN log :
        /\ log[i].pos = <<p - 1, p, p + 1>>
        /\ log[i].res = 2
        /\ log[i].out = <<SPACE, HYPHEN, HYPHEN, HYPHEN>>

\* the character at q went out, first in the output of a window it heads
EmittedAsHead(q) ==
    \E j \in DOMAIN log :
        /\ log[j].pos[1] = q
        /\ log[j].out # <<>>
        /\ Head(log[j].out) = fed[q]

\* a space that the rule table drops: before a space, before a line break
DroppedSpace(q) ==
    /\ fed[q] = SPACE
    /\ q < Len(fed)
    /\ fed[q + 1] \in {SPACE, NEWLINE}

\* C7 as claimed: every dash-variant after a space and before a space or a
\* comma is emitted as " ---", and the space or comma after it is emitted
\* afterwards
EmDashAndFollower ==
    FinalizedOnce =>
        \A p \in DOMAIN fed : EmDashAt(p) => (EmDashEmitted(p) /\ EmittedAsHead(p + 1))

\* C7 as amended: on sentinel-free input, in every chunking, every
\* dash-variant after a space and before a space or a comma is emitted as
\* " ---"; the comma after it is always emitted afterwards, the space after
\* it unless that space itself stands before a space or a line break
EmDashNormalized ==
    (FinalizedOnce /\ NoJoiner(fed)) =>
        \A p \in DOMAIN fed :
            EmDashAt(p) =>
                /\ EmDashEmitted(p)
                /\ EmittedAsHead(p + 1) <=> ~DroppedSpace(p + 1)

\* " - " before a line break, in two or more chunks: " ---" and the line
\* break are in the sink, the space between them is not
EmDashBeforeNewlineWitness ==
    /\ FinalizedOnce
    /\ nwrite = 2
    /\ fed = <<SPACE, EN_DASH, SPACE, NEWLINE>>
    /\ inner.data = <<SPACE, HYPHEN, HYPHEN, HYPHEN, NEWLINE>>

(***************************************************************************)
(* C8  Identity on plain text.                                             *)
(***************************************************************************)
DashSequenceAt(cs, p) ==
    /\ p \in 2..(Len(cs) - 1)
    /\ IsDash(cs[p])
    /\ \/ cs[p - 1] = SPACE /\ cs[p + 1] \in {SPACE, COMMA}
       \/ cs[p - 1] = COMMA /\ cs[p + 1] = SPACE
       \/ IsDigit(cs[p - 1]) /\ IsDigit(cs[p + 1])

\* no `$`, no `%`, no dash sequence, no repeated space
Plain(cs) ==
    /\ \A p \in DOMAIN cs : ~IsEscapable(cs[p]) /\ ~DashSequenceAt(cs, p)
    /\ \A p \in 1..(Len(cs) - 1) : ~(cs[p] = SPACE /\ cs[p + 1] = SPACE)

NoSpaceBeforeNewline(cs) ==
    \A p \in 1..(Len(cs) - 1) : ~(cs[p] = SPACE /\ cs[p + 1] = NEWLINE)

\* C8 as claimed: plain text comes out as it went in
PlainTextIdentity ==
    (FinalizedOnce /\ Plain(fed)) => inner.data = encode_str(fed)

\* C8 as amended: text with no `$`, no `%`, no dash sequence, no repeated
\* space, no space before a line break and no word joiner comes out as it
\* went in
PlainTextIdentityAmended ==
    (FinalizedOnce /\ Plain(fed) /\ NoSpaceBeforeNewline(fed) /\ NoJoiner(fed)) =>
        inner.data = encode_str(fed)

\* plain text with a dash, a comma and an em-dash that no rule rewrites
PlainTextWitness ==
    /\ FinalizedOnce
    /\ Plain(fed) /\ NoSpaceBeforeNewline(fed) /\ NoJoiner(fed)
    /\ fed = <<DIGIT_1, EM_DASH, HYPHEN>>
    /\ inner.data = <<DIGIT_1, 226, 128, 148, HYPHEN>>

(***************************************************************************)
(* C9  A write of a chunk that is not UTF-8 returns an error, makes no     *)
(* call on the sink and leaves last_chars as it was.                       *)
(***************************************************************************)
MalformedWriteChangesNothing ==
    [][op' = "write_malformed" =>
          /\ ret' = "InvalidData"
          /\ last_chars' = last_chars
          /\ inner' = inner
          /\ last_pos' = last_pos
          /\ log' = log]_vars

\* a malformed chunk was refused while last_chars held context and the sink
\* held output
MalformedRefusedWitness ==
    /\ op = "write_malformed"
    /\ ret = "InvalidData"
    /\ last_chars = <<SPACE, HYPHEN, WORD_JOINER>>
    /\ inner.data # <<>>

(***************************************************************************)
(* C10  No duplication after a sink error: a character held in last_chars  *)
(* has had no output emitted, and no character has output emitted by more  *)
(* than one window.                                                        *)
(***************************************************************************)
EmittingWindows(p) == {i \in DOMAIN log : log[i].pos[1] = p /\ log[i].out # <<>>}

NoDuplication ==
    \A p \in DOMAIN fed :
        /\ Cardinality(EmittingWindows(p)) <= 1
        /\ p \in Pending => EmittingWindows(p) = {}

(***************************************************************************)
(* C11  Sink error propagation: a write or flush call returns SinkError    *)
(* exactly when one of its sink calls failed, and that failing call is the *)
(* last sink call it made; a drop whose flush fails still completes        *)
(* (the writer is gone, last_chars emptied, nothing returned).             *)
(***************************************************************************)
SinkErrorPropagates ==
    [][LET n0 == Len(inner.calls)
           n1 == Len(inner'.calls)
       IN /\ op' \in {"write", "flush", "drop"} =>
                \A i \in (n0 + 1)..(n1 - 1) : inner'.calls[i].ok
          /\ op' \in {"write", "flush"} =>
                (ret' = "SinkError" <=> (n1 > n0 /\ ~inner'.calls[n1].ok))
          /\ op' = "drop" =>
                (~alive' /\ ret' = "Ok" /\ last_chars' = EMPTY_CHARS)]_vars

\* a write failed inside the en-dash arm: the digit reached the sink, the
\* write of "--" failed and was the last sink call
RangeHalfWrittenWitness ==
    /\ op = "write"
    /\ ret = "SinkError"
    /\ log # <<>>
    /\ log[Len(log)].res = 0
    /\ log[Len(log)].out = <<DIGIT_1>>
    /\ ~inner.calls[Len(inner.calls)].ok
    /\ inner.calls[Len(inner.calls)].bytes = <<HYPHEN, HYPHEN>>

(***************************************************************************)
(* C12  Context-buffer invariant: between calls the third slot of          *)
(* last_chars is the sentinel and the real characters (at most 2) fill a   *)
(* prefix of the slots; after a successful write of sentinel-free input    *)
(* they are the last 2 or fewer characters fed, and every earlier          *)
(* character was accounted for by a classified window.                     *)
(***************************************************************************)
StashIsSuffix ==
    LET k == Cardinality(Pending)
        n == Len(fed)
    IN /\ k <= 2
       /\ k <= n
       /\ Pending = (n - k + 1)..n
       /\ \A i \in 1..k : last_chars[i] = fed[n - k + i] /\ last_pos[i] = n - k + i
       /\ \A p \in 1..(n - k) : AsHead(p) + AsSecond(p) = 1

ContextBufferInvariant ==
    /\ last_chars[3] = WORD_JOINER
    /\ last_chars[1] = WORD_JOINER => last_chars[2] = WORD_JOINER
    /\ (op = "write" /\ ret = "Ok" /\ NoJoiner(fed)) => StashIsSuffix

(***************************************************************************)
(* C13  Finalize always resets: when flush or drop returns, with success   *)
(* or with a sink error, last_chars is all-sentinel; so the call that      *)
(* follows a flush does to the sink, and returns, what it would on a       *)
(* writer freshly constructed over that sink.                              *)
(***************************************************************************)
FinalizeResets ==
    [][LET fresh == [LatexWrite_from(inner) EXCEPT !.log = log]
           cs == SubSeq(fed', Len(fed) + 1, Len(fed'))
       IN /\ op' \in {"flush", "drop"} =>
                (last_chars' = EMPTY_CHARS /\ last_pos' = <<0, 0, 0>>)
          /\ (op = "flush" /\ op' = "write") =>
                LET r == write(fresh, encode_str(cs), Len(fed)) IN
                /\ inner' = r.w.inner
                /\ last_chars' = r.w.last_chars
                /\ ret' = r.ret
          /\ (op = "flush" /\ op' \in {"flush", "drop"}) =>
                inner' = flush(fresh).w.inner]_vars

\* a flush that held context failed at the sink and left last_chars empty
FailedFlushWitness ==
    /\ op = "flush"
    /\ ret = "SinkError"
    /\ log # <<>>
    /\ log[Len(log)].res = 0
    /\ last_chars = EMPTY_CHARS

(***************************************************************************)
(* C14  Flush after every window.  The sink calls, read against the        *)
(* classified windows in order: each window's calls are the writes of its  *)
(* arm, each offered whole, and then one flush, before any call of the     *)
(* next window.  A window one of whose writes failed made no further call  *)
(* (no flush); `strict` says that no window follows such a window.         *)
(***************************************************************************)
IsWriteOf(call, bytes, ok) == call.op = "write" /\ call.bytes = bytes /\ call.ok = ok

RECURSIVE WindowsFlushed(_, _, _)
WindowsFlushed(calls, lg, strict) ==
    IF lg = <<>> THEN calls = <<>>
    ELSE LET ws == ArmWrites(Head(lg).trigram)
             n == Len(ws)
         IN \/ /\ Len(calls) >= n + 1
               /\ \A k \in 1..n : IsWriteOf(calls[k], ws[k], TRUE)
               /\ calls[n + 1].op = "flush"
               /\ WindowsFlushed(SubSeq(calls, n + 2, Len(calls)), Tail(lg), strict)
            \/ /\ ~strict \/ Tail(lg) = <<>>
               /\ \E k \in 1..n :
                    /\ Len(calls) >= k
                    /\ \A j \in 1..(k - 1) : IsWriteOf(calls[j], ws[j], TRUE)
                    /\ IsWriteOf(calls[k], ws[k], FALSE)
                    /\ WindowsFlushed(SubSeq(calls, k + 1, Len(calls)), Tail(lg), strict)

\* C14 as claimed: exactly one flush between any two successive windows
FlushAfterEveryWindow == WindowsFlushed(inner.calls, log, TRUE)

\* C14 amended: exactly one flush after every window whose sink writes
\* succeeded, windows that emit nothing included; none between a window
\* whose write failed and the next window
FlushAfterWrittenWindow == WindowsFlushed(inner.calls, log, FALSE)

\* a window that emitted nothing was flushed and followed by another window
\* on a sink that failed
SilentWindowFlushedWitness ==
    /\ ~SinkNeverFailed
    /\ \E i \in DOMAIN log :
        /\ i < Len(log)
        /\ log[i].res = 1
        /\ ArmWrites(log[i].trigram) = <<>>

(***************************************************************************)
(* C15  The sentinel never reaches the sink: neither the bytes the sink    *)
(* holds nor the slice of any sink call contain the UTF-8 encoding of      *)
(* U+2060, whatever was written, flushed and dropped.                      *)
(***************************************************************************)
Contains(bytes, pat) ==
    \E i \in 1..(Len(bytes) - Len(pat) + 1) : SubSeq(bytes, i, i + Len(pat) - 1) = pat

SentinelNeverWritten ==
    /\ ~Contains(inner.data, encode_utf8(WORD_JOINER))
    /\ \A i \in DOMAIN inner.calls :
        ~Contains(inner.calls[i].bytes, encode_utf8(WORD_JOINER))

\* a U+2060 of the input headed a classified window, the character after a
\* U+2060 headed one too, and the writer was finalized
JoinerClassifiedWitness ==
    /\ FinalizedOnce
    /\ \E i \in DOMAIN log :
        log[i].trigram[1] = WORD_JOINER /\ log[i].pos[1] # 0
    /\ \E i \in DOMAIN log :
        log[i].trigram[1] # WORD_JOINER /\ log[i].pos[1] > 1
            /\ fed[log[i].pos[1] - 1] = WORD_JOINER
    /\ inner.data # <<>>

(***************************************************************************)
(* C16  Sentinel collision is harmless to the other characters: once the   *)
(* writer is finalized, every character of the input other than U+2060,    *)
(* those after a U+2060 included, was accounted for by exactly one         *)
(* classified window.                                                      *)
(***************************************************************************)
JoinerHarmless ==
    FinalizedOnce =>
        \A p \in DOMAIN fed :
            fed[p] # WORD_JOINER => AsHead(p) + AsSecond(p) = 1

(***************************************************************************)
(* C17  Whitespace normal form: a sentinel-free text, in any chunking,     *)
(* finalized once, leaves in the sink no two consecutive spaces and no     *)
(* space directly before a line break, and as many line breaks as the      *)
(* text holds.                                                             *)
(***************************************************************************)
WhitespaceNormalForm ==
    (FinalizedOnce /\ NoJoiner(fed)) =>
        /\ \A i \in 1..(Len(inner.data) - 1) :
            inner.data[i] = SPACE => inner.data[i + 1] \notin {SPACE, NEWLINE}
        /\ Occurrences(inner.data, NEWLINE) = Occurrences(fed, NEWLINE)

\* three spaces before a line break, written in two or more chunks, left
\* the line break alone
SpaceRunBeforeNewlineWitness ==
    /\ FinalizedOnce
    /\ nwrite = 2
    /\ fed = <<SPACE, SPACE, SPACE, NEWLINE>>
    /\ inner.data = <<NEWLINE>>

(***************************************************************************)
(* C18  Short sink writes lose nothing: between calls, every byte of every *)
(* slice that a sink write took without error (in full or only a prefix,   *)
(* returning the smaller count) has reached the sink, in order.            *)
(***************************************************************************)
RECURSIVE Offered(_)
Offered(calls) ==
    IF calls = <<>> THEN <<>>
    ELSE IF Head(calls).op = "write" /\ Head(calls).ok
         THEN Head(calls).bytes \o Offered(Tail(calls))
         ELSE Offered(Tail(calls))

ShortWritesLoseNothing == inner.data = Offered(inner.calls)

(***************************************************************************)
(* C19  Balanced style commands: for every element write_node has closed,  *)
(* if its style has the quotation flag, write_start wrote the quote begin  *)
(* marker and write_end the quote end marker, whatever the other flags;    *)
(* otherwise write_start wrote one opening command and write_end one       *)
(* closing brace, and nothing else, per flag set among bold, italic and    *)
(* superscript.  With no element open, the braces written balance.         *)
(***************************************************************************)
Flags(sty) ==
    Cardinality({f \in {"bold", "italic", "superscript"} : sty[f]})

StyleBalanced ==
    /\ \A i \in DOMAIN doc.closed :
        LET e == doc.closed[i] IN
        e.sty # <<>> =>
            IF e.sty[1].quotation
            THEN /\ e.start = BEGIN_QUOTE \o <<NEWLINE>>
                 /\ e.end = <<NEWLINE>> \o END_QUOTE \o <<NEWLINE>>
            ELSE /\ Occurrences(e.start, BACKSLASH) = Flags(e.sty[1])
                 /\ Occurrences(e.start, LBRACE) = Flags(e.sty[1])
                 /\ Occurrences(e.start, RBRACE) = 0
                 /\ Occurrences(e.end, RBRACE) = Flags(e.sty[1])
                 /\ Len(e.end) = Flags(e.sty[1])
    /\ doc.stack = <<>> =>
        Occurrences(doc.page, LBRACE) = Occurrences(doc.page, RBRACE)

\* a bold superscript element was closed inside a quotation, itself closed,
\* whose style also has the italic flag
NestedStylesWitness ==
    /\ doc.stack = <<>>
    /\ Len(doc.closed) = 2
    /\ doc.closed[1].sty = <<[superscript |-> TRUE, italic |-> FALSE, bold |-> TRUE,
                              quotation |-> FALSE]>>
    /\ doc.closed[2].sty = <<[superscript |-> FALSE, italic |-> TRUE, bold |-> FALSE,
                              quotation |-> TRUE]>>
    /\ Occurrences(doc.page, RBRACE) = 4

====
